---- MODULE Spec2Model ----
(***************************************************************************)
(* MidiInterface (src/core/MidiInterface.cpp): a monophonic MIDI-to-CV     *)
(* voice.  processMidi decodes one packed MIDI word and dispatches it to   *)
(* pressNote / releaseNote, which maintain the list of held notes, the     *)
(* sustain pedal, the gate and the sounding note.                          *)
(***************************************************************************)
EXTENDS Integers, Sequences, FiniteSets, TLC

(***************************************************************************)
(* Bounds of the input space.                                              *)
(***************************************************************************)
\* how many distinct data1 bytes (note numbers / controller numbers) occur
MaxNotes == 3

\* data1 bytes in the order they are added as MaxNotes grows: 0x40 = 64 is
\* both a note number and the sustain controller number, 200 is a byte above
\* the 7-bit MIDI range that the 8-bit mask of processMidi lets through
NotePool == <<60, 64, 200, 67, 72>>

Data1Bytes == {NotePool[i] : i \in 1..MaxNotes}

\* data2 bytes: velocity 0 (below the pedal threshold), the pedal threshold
\* itself, and a byte above the 7-bit range
Data2Bytes == {0, 64, 200}

\* channel nibbles: the honoured one and another one
Channels == {0, 1}

\* status nibbles: note off, note on, poly aftertouch (unhandled), control
\* change, pitch wheel
Statuses == {8, 9, 10, 11, 14}

\* how many events wait in the input stream between two calls of step
MaxPending == 2

\* the events that arrive on an open port: presses and releases (note off,
\* and note on with velocity 0) of notes 60 and 76, sustain pedal down and
\* up, a pitch bend, and a note on on another channel
TickMessages ==
    { [channel |-> 0, status |-> 9, data1 |-> 60, data2 |-> 100],
      [channel |-> 0, status |-> 9, data1 |-> 76, data2 |-> 100],
      [channel |-> 0, status |-> 8, data1 |-> 60, data2 |-> 64],
      [channel |-> 0, status |-> 9, data1 |-> 76, data2 |-> 0],
      [channel |-> 0, status |-> 11, data1 |-> 64, data2 |-> 127],
      [channel |-> 0, status |-> 11, data1 |-> 64, data2 |-> 0],
      [channel |-> 0, status |-> 14, data1 |-> 0, data2 |-> 96],
      [channel |-> 1, status |-> 9, data1 |-> 60, data2 |-> 100] }

\* the outputs of the module
Outputs == {"GATE_OUTPUT", "PITCH_OUTPUT"}

(***************************************************************************)
(* State: the fields of MidiInterface, and the history needed to state     *)
(* the properties (the last message fed to processMidi, the fields before  *)
(* it, and the history of note events).                                    *)
(***************************************************************************)
VARIABLES notes, pedal, gate, note, pitchWheel, last, pre, history

(***************************************************************************)
(* State of step: whether a port is open (stream), the events waiting in   *)
(* its input stream, which outputs are connected, and the values last      *)
(* written to them: the gate in volts, the pitch as a fraction num / den.  *)
(* History: the last operation, and for a step the events that waited when *)
(* it began (batch) and those it passed to processMidi (processed).        *)
(***************************************************************************)
VARIABLES stream, pending, wired, gateOut, pitchOut, op, batch, processed

vars == <<notes, pedal, gate, note, pitchWheel, last, pre, history,
          stream, pending, wired, gateOut, pitchOut, op, batch, processed>>

stepVars == <<stream, pending, wired, gateOut, pitchOut, op, batch, processed>>

\* the fields of the object as one value
Fields == [notes |-> notes, pedal |-> pedal, gate |-> gate, note |-> note,
           pitchWheel |-> pitchWheel]

\* value of last before any message was processed (0 is no status nibble
\* of Statuses)
NoMessage == [channel |-> 0, status |-> 0, data1 |-> 0, data2 |-> 0]

(***************************************************************************)
(* std::list<int> helpers.                                                 *)
(***************************************************************************)
\* std::find(notes.begin(), notes.end(), n): position of the first element
\* equal to n, 0 standing for notes.end()
find(list, n) ==
    IF \E i \in 1..Len(list) : list[i] = n
    THEN CHOOSE i \in 1..Len(list) :
            list[i] = n /\ \A j \in 1..(i - 1) : list[j] # n
    ELSE 0

\* notes.erase(it): the list without the element at position it
erase(list, it) ==
    [i \in 1..(Len(list) - 1) |-> IF i < it THEN list[i] ELSE list[i + 1]]

(***************************************************************************)
(* MidiInterface::pressNote                                                *)
(***************************************************************************)
\* pressNote without the erase of lines 116-118
pressNoteNoErase(s, n) ==
    [s EXCEPT !.notes = Append(s.notes, n),
              !.gate = TRUE,
              !.note = n]

\* pressNote with "note = note" for "this->note = note" (the parameter
\* shadows the field)
pressNoteShadowed(s, n) ==
    LET it == find(s.notes, n)
        erased == IF it # 0 THEN erase(s.notes, it) ELSE s.notes
    IN  [s EXCEPT !.notes = Append(erased, n),
                  !.gate = TRUE]

\* pressNote with push_front for push_back
pressNotePushFront(s, n) ==
    LET it == find(s.notes, n)
        erased == IF it # 0 THEN erase(s.notes, it) ELSE s.notes
    IN  [s EXCEPT !.notes = <<n>> \o erased,
                  !.gate = TRUE,
                  !.note = n]

pressNote(s, n) ==
    LET it == find(s.notes, n)
        erased == IF it # 0 THEN erase(s.notes, it) ELSE s.notes
    IN  [s EXCEPT !.notes = Append(erased, n),
                  !.gate = TRUE,
                  !.note = n]

(***************************************************************************)
(* MidiInterface::releaseNote                                              *)
(***************************************************************************)
\* releaseNote that returns before the erase while the pedal is held
releaseNoteKeepSustained(s, n) ==
    LET it == find(s.notes, n)
        erased == IF it # 0 THEN erase(s.notes, it) ELSE s.notes
    IN  IF s.pedal
        THEN s
        ELSE IF erased # <<>>
             THEN [s EXCEPT !.notes = erased, !.note = erased[Len(erased)]]
             ELSE [s EXCEPT !.notes = erased, !.gate = FALSE]

\* releaseNote that plays *notes.begin() for the element before notes.end()
releaseNoteFront(s, n) ==
    LET it == find(s.notes, n)
        erased == IF it # 0 THEN erase(s.notes, it) ELSE s.notes
    IN  IF s.pedal
        THEN [s EXCEPT !.notes = erased]
        ELSE IF erased # <<>>
             THEN [s EXCEPT !.notes = erased, !.note = erased[1]]
             ELSE [s EXCEPT !.notes = erased, !.gate = FALSE]

\* releaseNote whose last branch also resets the note to its default
releaseNoteReset(s, n) ==
    LET it == find(s.notes, n)
        erased == IF it # 0 THEN erase(s.notes, it) ELSE s.notes
    IN  IF s.pedal
        THEN [s EXCEPT !.notes = erased]
        ELSE IF erased # <<>>
             THEN [s EXCEPT !.notes = erased, !.note = erased[Len(erased)]]
             ELSE [s EXCEPT !.notes = erased, !.gate = FALSE, !.note = 64]

\* releaseNote without the pedal branch
releaseNoteNoPedal(s, n) ==
    LET it == find(s.notes, n)
        erased == IF it # 0 THEN erase(s.notes, it) ELSE s.notes
    IN  IF erased # <<>>
        THEN [s EXCEPT !.notes = erased, !.note = erased[Len(erased)]]
        ELSE [s EXCEPT !.notes = erased, !.gate = FALSE]

\* releaseNote that closes the gate without looking at notes.empty()
releaseNoteAlwaysOff(s, n) ==
    LET it == find(s.notes, n)
        erased == IF it # 0 THEN erase(s.notes, it) ELSE s.notes
    IN  IF s.pedal
        THEN [s EXCEPT !.notes = erased]
        ELSE [s EXCEPT !.notes = erased, !.gate = FALSE]

\* releaseNote that returns when the note is not in the list
releaseNoteReturnNotFound(s, n) ==
    LET it == find(s.notes, n)
        erased == IF it # 0 THEN erase(s.notes, it) ELSE s.notes
    IN  IF it = 0 \/ s.pedal
        THEN [s EXCEPT !.notes = erased]
        ELSE IF erased # <<>>
             THEN [s EXCEPT !.notes = erased, !.note = erased[Len(erased)]]
             ELSE [s EXCEPT !.notes = erased, !.gate = FALSE]

releaseNote(s, n) ==
    LET it == find(s.notes, n)
        erased == IF it # 0 THEN erase(s.notes, it) ELSE s.notes
    IN  IF s.pedal
        THEN [s EXCEPT !.notes = erased]
        ELSE IF erased # <<>>
             THEN [s EXCEPT !.notes = erased, !.note = erased[Len(erased)]]
             ELSE [s EXCEPT !.notes = erased, !.gate = FALSE]

(***************************************************************************)
(* MidiInterface::processMidi                                              *)
(***************************************************************************)
\* the packed word processMidi takes apart: channel in bits 0-3, status in
\* bits 4-7, data1 in bits 8-15, data2 in bits 16-23
RawMessage(channel, status, data1, data2) ==
    data2 * 65536 + data1 * 256 + status * 16 + channel

\* note on without the velocity test
noteOnAnyVelocity(s, data1, data2) ==
    pressNote(s, data1)

\* case 0x9: note on
noteOn(s, data1, data2) ==
    IF data2 # 0 THEN pressNote(s, data1) ELSE releaseNote(s, data1)

\* cc 0x40 without the releaseNote(-1)
controlChangeNoRelease(s, data1, data2) ==
    IF data1 = 64
    THEN [s EXCEPT !.pedal = (data2 >= 64)]
    ELSE s

\* cc 0x40 with the releaseNote(-1) before the assignment to pedal
controlChangeReleaseFirst(s, data1, data2) ==
    IF data1 = 64
    THEN [releaseNote(s, -1) EXCEPT !.pedal = (data2 >= 64)]
    ELSE s

\* cc without the switch on the controller number
controlChangeAnyController(s, data1, data2) ==
    releaseNote([s EXCEPT !.pedal = (data2 >= 64)], -1)

\* cc 0x40 that releases the controller number for the -1
controlChangeReleaseData1(s, data1, data2) ==
    IF data1 = 64
    THEN releaseNote([s EXCEPT !.pedal = (data2 >= 64)], data1)
    ELSE s

\* cc 0x40 with data2 > 64 for data2 >= 64
controlChangeAbove64(s, data1, data2) ==
    IF data1 = 64
    THEN releaseNote([s EXCEPT !.pedal = (data2 > 64)], -1)
    ELSE s

\* case 0xb: cc
controlChange(s, data1, data2) ==
    IF data1 = 64
    THEN releaseNote([s EXCEPT !.pedal = (data2 >= 64)], -1)
    ELSE s

\* processMidi without the channel filter of lines 151-152
processMidiAnyChannel(s, msg) ==
    LET status == (msg \div 16) % 16
        data1 == (msg \div 256) % 256
        data2 == (msg \div 65536) % 256
    IN  CASE status = 8 -> releaseNote(s, data1)
          [] status = 9 -> noteOn(s, data1, data2)
          [] status = 11 -> controlChange(s, data1, data2)
          [] status = 14 -> [s EXCEPT !.pitchWheel = data2]
          [] OTHER -> s

\* processMidi that takes the pitch wheel from data1
processMidiBendData1(s, msg) ==
    LET channel == msg % 16
        status == (msg \div 16) % 16
        data1 == (msg \div 256) % 256
        data2 == (msg \div 65536) % 256
    IN  IF channel # 0
        THEN s
        ELSE CASE status = 8 -> releaseNote(s, data1)
               [] status = 9 -> noteOn(s, data1, data2)
               [] status = 11 -> controlChange(s, data1, data2)
               [] status = 14 -> [s EXCEPT !.pitchWheel = data1]
               [] OTHER -> s

processMidi(s, msg) ==
    LET channel == msg % 16
        status == (msg \div 16) % 16
        data1 == (msg \div 256) % 256
        data2 == (msg \div 65536) % 256
    IN  IF channel # 0
        THEN s
        ELSE CASE status = 8 -> releaseNote(s, data1)
               [] status = 9 -> noteOn(s, data1, data2)
               [] status = 11 -> controlChange(s, data1, data2)
               [] status = 14 -> [s EXCEPT !.pitchWheel = data2]
               [] OTHER -> s

(***************************************************************************)
(* History of the channel-0 note events: the notes whose most recent note  *)
(* event is a press, in the order in which those presses arrived.  A press *)
(* is a note on with a velocity other than 0; a release is a note off or a *)
(* note on with velocity 0.                                                *)
(***************************************************************************)
IsPress(m) == m.channel = 0 /\ m.status = 9 /\ m.data2 # 0

IsRelease(m) ==
    m.channel = 0 /\ (m.status = 8 \/ (m.status = 9 /\ m.data2 = 0))

Without(log, n) ==
    LET Other(e) == e # n
    IN  SelectSeq(log, Other)

NoteEvent(log, m) ==
    IF IsPress(m) THEN Append(Without(log, m.data1), m.data1)
    ELSE IF IsRelease(m) THEN Without(log, m.data1)
    ELSE log

(***************************************************************************)
(* Specification: any sequence of messages fed to processMidi.             *)
(***************************************************************************)
\* the object after construction, but for the connection of its outputs
InitFields ==
    /\ notes = <<>>
    /\ pedal = FALSE
    /\ gate = FALSE
    /\ note = 64
    /\ pitchWheel = 64
    /\ last = NoMessage
    /\ pre = Fields
    /\ history = <<>>
    /\ stream = FALSE
    /\ pending = <<>>
    /\ gateOut = 0
    /\ pitchOut = [num |-> 0, den |-> 1]
    /\ op = "init"
    /\ batch = <<>>
    /\ processed = <<>>

Init ==
    /\ InitFields
    /\ wired = Outputs

\* one call of processMidi on the packed message m; s is the object after
\* the call
Deliver(m) ==
    \E s \in {processMidi(Fields,
                          RawMessage(m.channel, m.status, m.data1, m.data2))} :
        /\ notes' = s.notes
        /\ pedal' = s.pedal
        /\ gate' = s.gate
        /\ note' = s.note
        /\ pitchWheel' = s.pitchWheel
        /\ last' = m
        /\ pre' = Fields
        /\ history' = NoteEvent(history, m)
        /\ UNCHANGED stepVars

ProcessMidi ==
    \E channel \in Channels, status \in Statuses,
       data1 \in Data1Bytes, data2 \in Data2Bytes :
        Deliver([channel |-> channel, status |-> status,
                 data1 |-> data1, data2 |-> data2])

Next == ProcessMidi

Spec == Init /\ [][Next]_vars

(***************************************************************************)
(* MidiInterface::step and MidiInterface::openPort                         *)
(***************************************************************************)
\* while (Pm_Read(stream, &event, 1) > 0) processMidi(event.message): the
\* fields after the loop, the events left in the stream and the events read
RECURSIVE readAll(_, _, _)
readAll(s, queue, read) ==
    IF queue = <<>>
    THEN [fields |-> s, queue |-> queue, read |-> read]
    ELSE LET event == Head(queue)
         IN  readAll(processMidi(s, RawMessage(event.channel, event.status,
                                               event.data1, event.data2)),
                     Tail(queue), Append(read, event))

\* the loop with "if" for "while": one event for each step
drainOne(s, queue) ==
    IF queue = <<>>
    THEN [fields |-> s, queue |-> queue, read |-> <<>>]
    ELSE LET event == Head(queue)
         IN  [fields |-> processMidi(s, RawMessage(event.channel, event.status,
                                                   event.data1, event.data2)),
              queue |-> Tail(queue),
              read |-> <<event>>]

\* lines 68-74: the events of an open stream are read until none is left
drain(s, queue) == readAll(s, queue, <<>>)

\* line 77: gate ? 5.0 : 0.0
gateOutput(s) == IF s.gate THEN 5 ELSE 0

\* the pitch with 60 for the reference note 64
pitchOutputFrom60(s) ==
    [num |-> (s.note - 60) * 64 + 2 * (s.pitchWheel - 64), den |-> 64 * 12]

\* line 80: ((note - 64) + 2.0*(pitchWheel - 64) / 64.0) / 12.0, as the
\* fraction with the denominator 64 * 12
pitchOutput(s) ==
    [num |-> (s.note - 64) * 64 + 2 * (s.pitchWheel - 64), den |-> 64 * 12]

\* the note events among the events read, added to the history in order
RECURSIVE NoteEvents(_, _)
NoteEvents(log, read) ==
    IF read = <<>> THEN log
    ELSE NoteEvents(NoteEvent(log, Head(read)), Tail(read))

InitStep ==
    /\ InitFields
    /\ wired \in SUBSET Outputs

\* openPort(portId): the open port is closed and what waits in it is lost;
\* portId >= 0 opens a port, which can fail
OpenPort ==
    \E portId \in {-1, 0}, opened \in BOOLEAN :
        /\ stream' = (portId >= 0 /\ opened)
        /\ pending' = <<>>
        /\ op' = "openPort"
        /\ pre' = Fields
        /\ batch' = <<>>
        /\ processed' = <<>>
        /\ UNCHANGED <<notes, pedal, gate, note, pitchWheel, last, history,
                       wired, gateOut, pitchOut>>

\* an event arrives in the input stream of the open port
Arrive ==
    \E m \in TickMessages :
        /\ stream
        /\ Len(pending) < MaxPending
        /\ pending' = Append(pending, m)
        /\ op' = "arrive"
        /\ pre' = Fields
        /\ batch' = <<>>
        /\ processed' = <<>>
        /\ UNCHANGED <<notes, pedal, gate, note, pitchWheel, last, history,
                       stream, wired, gateOut, pitchOut>>

\* one call of step
Step ==
    \E d \in {IF stream THEN drain(Fields, pending)
               ELSE [fields |-> Fields, queue |-> pending, read |-> <<>>]} :
        /\ notes' = d.fields.notes
        /\ pedal' = d.fields.pedal
        /\ gate' = d.fields.gate
        /\ note' = d.fields.note
        /\ pitchWheel' = d.fields.pitchWheel
        /\ pending' = d.queue
        /\ gateOut' = IF "GATE_OUTPUT" \in wired
                       THEN gateOutput(d.fields) ELSE gateOut
        /\ pitchOut' = IF "PITCH_OUTPUT" \in wired
                        THEN pitchOutput(d.fields) ELSE pitchOut
        /\ op' = "step"
        /\ pre' = Fields
        /\ batch' = pending
        /\ processed' = d.read
        /\ history' = NoteEvents(history, d.read)
        /\ UNCHANGED <<last, stream, wired>>

NextStep == OpenPort \/ Arrive \/ Step

SpecStep == InitStep /\ [][NextStep]_vars

(***************************************************************************)
(* Vocabulary of the properties.                                           *)
(***************************************************************************)
Held(list) == {list[i] : i \in 1..Len(list)}

Top(list) == list[Len(list)]

IsPedal(m) == m.channel = 0 /\ m.status = 11 /\ m.data1 = 64

IsPedalUp(m) == IsPedal(m) /\ m.data2 < 64

IsPedalDown(m) == IsPedal(m) /\ m.data2 >= 64

(***************************************************************************)
(* C1: after any sequence of messages fed to processMidi, on any channel,  *)
(* no value occurs more than once in the note stack.                       *)
(***************************************************************************)
C1_NoDuplicates ==
    \A i, j \in 1..Len(notes) : i # j => notes[i] # notes[j]

\* a held note that is not the most recent one is pressed again
C1_Witness ==
    /\ IsPress(last)
    /\ Len(pre.notes) >= 2
    /\ last.data1 \in Held(pre.notes)
    /\ last.data1 # Top(pre.notes)

(***************************************************************************)
(* C2: the note stack holds exactly the notes whose most recent channel-0  *)
(* note event is a press, ordered by the arrival of that press, the most   *)
(* recent press last, also for releases that arrive with the pedal held.   *)
(***************************************************************************)
C2_StackIsPressHistory ==
    notes = history

\* a release arrived with the pedal held and left two notes held, and the
\* order of the two differs from the order of their first presses
C2_Witness ==
    /\ IsRelease(last)
    /\ pre.pedal
    /\ last.data1 \in Held(pre.notes)
    /\ Len(notes) = 2
    /\ notes[1] > notes[2]

(***************************************************************************)
(* C3: pressNote(n) leaves n as the last stack element, opens the gate,    *)
(* makes n the current note and keeps the relative order of the other held *)
(* notes; the stack keeps its size if n was held and grows by one if not.  *)
(***************************************************************************)
C3_PressNote ==
    IsPress(last) =>
        LET n == last.data1
        IN  /\ notes # <<>>
            /\ Top(notes) = n
            /\ gate = TRUE
            /\ note = n
            /\ Without(notes, n) = Without(pre.notes, n)
            /\ Len(notes) = IF n \in Held(pre.notes)
                            THEN Len(pre.notes)
                            ELSE Len(pre.notes) + 1

\* the oldest of three held notes is pressed again while another note
\* sounds
C3_Witness ==
    /\ IsPress(last)
    /\ Len(pre.notes) = 3
    /\ pre.notes[1] = last.data1
    /\ pre.note # last.data1

(***************************************************************************)
(* C4: with the pedal not held, a release that leaves at least one note    *)
(* held makes the most recently pressed remaining note the current note    *)
(* and leaves the gate open; releasing a held note that is not the most    *)
(* recent one leaves the current note unchanged.                           *)
(***************************************************************************)
C4_ReleaseFallsBack ==
    (IsRelease(last) /\ ~pre.pedal /\ notes # <<>>) =>
        /\ history # <<>>
        /\ note = Top(history)
        /\ gate = TRUE
        /\ (last.data1 \in Held(pre.notes) /\ last.data1 # Top(pre.notes)
                => note = pre.note)

\* the most recent of three held notes is released with the pedal up
C4_Witness ==
    /\ IsRelease(last)
    /\ ~pre.pedal
    /\ Len(pre.notes) = 3
    /\ last.data1 = Top(pre.notes)
    /\ note # pre.note

(***************************************************************************)
(* C5: with the pedal not held, a release after which the note stack is    *)
(* empty closes the gate and leaves the current note and the pitch wheel   *)
(* as they were.                                                           *)
(***************************************************************************)
C5_ReleaseLastNote ==
    (IsRelease(last) /\ ~pre.pedal /\ notes = <<>>) =>
        /\ gate = FALSE
        /\ note = pre.note
        /\ pitchWheel = pre.pitchWheel

\* the only held note, other than the default note, is released with the
\* pedal up and the pitch wheel off centre
C5_Witness ==
    /\ IsRelease(last)
    /\ ~pre.pedal
    /\ pre.notes = <<last.data1>>
    /\ pre.gate
    /\ notes = <<>>
    /\ pre.note # 64
    /\ pre.pitchWheel # 64

(***************************************************************************)
(* C6: with the pedal held, a release of n (note off, or note on with      *)
(* velocity 0) leaves the gate and the current note unchanged and still    *)
(* removes n from the note stack.                                          *)
(***************************************************************************)
C6_ReleaseUnderPedal ==
    (IsRelease(last) /\ pre.pedal) =>
        /\ gate = pre.gate
        /\ note = pre.note
        /\ last.data1 \notin Held(notes)

\* the sounding note is released with the pedal held while an older note
\* stays held
C6_Witness ==
    /\ IsRelease(last)
    /\ pre.pedal
    /\ pre.gate
    /\ Len(pre.notes) = 2
    /\ last.data1 = Top(pre.notes)
    /\ pre.note = last.data1
    /\ Len(notes) = 1

(***************************************************************************)
(* C7: a pedal-up event clears pedal and derives the voice from the stack: *)
(* an empty stack closes the gate, otherwise the gate stays open and the   *)
(* most recently pressed note still held becomes the current note.         *)
(***************************************************************************)
C7_PedalUp ==
    IsPedalUp(last) =>
        /\ pedal = FALSE
        /\ (notes = <<>> => gate = FALSE)
        /\ (notes # <<>> =>
                /\ pre.gate = TRUE
                /\ gate = TRUE
                /\ history # <<>>
                /\ note = Top(history))

\* the pedal goes up while a note released under the pedal still sounds and
\* an older note is held
C7_Witness ==
    /\ IsPedalUp(last)
    /\ pre.pedal
    /\ pre.gate
    /\ notes # <<>>
    /\ pre.note \notin Held(notes)
    /\ note # pre.note

(***************************************************************************)
(* C8: a message processed with the gate open leaves the gate open if the  *)
(* pedal is held after it.                                                 *)
(***************************************************************************)
C8_PedalHoldsGate ==
    (last # NoMessage /\ pre.gate /\ pedal) => gate = TRUE

\* the pedal is pressed in the very message that finds the gate open and
\* no note held
C8_Witness ==
    /\ IsPedalDown(last)
    /\ pre.gate
    /\ pre.notes = <<>>
    /\ gate

(***************************************************************************)
(* C9: in every reachable state a channel-0 note on for n with velocity 0  *)
(* results in the same state as a channel-0 note off for n with any        *)
(* velocity.                                                               *)
(***************************************************************************)
C9_ZeroVelocityIsNoteOff ==
    \A n \in Data1Bytes, v \in Data2Bytes :
        processMidi(Fields, RawMessage(0, 9, n, 0))
            = processMidi(Fields, RawMessage(0, 8, n, v))

\* a note on with velocity 0 arrived for the sounding note and changed the
\* current note
C9_Witness ==
    /\ last.channel = 0 /\ last.status = 9 /\ last.data2 = 0
    /\ last.data1 \in Held(pre.notes)
    /\ pre.note = last.data1
    /\ note # pre.note

(***************************************************************************)
(* C10: a message whose channel nibble is not 0 changes none of the note   *)
(* stack, pedal, gate, current note and pitch wheel.                       *)
(***************************************************************************)
C10_OtherChannelIgnored ==
    last.channel # 0 => Fields = pre

\* messages of every status arrive on channel 1: here a note on for a note
\* that is not held, while another one is
C10_Witness ==
    /\ last.channel = 1
    /\ last.status = 9
    /\ last.data2 # 0
    /\ pre.notes # <<>>
    /\ last.data1 \notin Held(pre.notes)
(***************************************************************************)
(* C11: a channel-0 message whose status nibble is none of 0x8, 0x9, 0xB,  *)
(* 0xE, or a control change for a controller other than 0x40, changes no   *)
(* field; processMidi has a result for it.                                 *)
(***************************************************************************)
C11_UnhandledIgnored ==
    (/\ last # NoMessage
     /\ last.channel = 0
     /\ \/ last.status \notin {8, 9, 11, 14}
        \/ last.status = 11 /\ last.data1 # 64) =>
        Fields = pre

\* a control change for controller 60 with a value above the pedal
\* threshold arrives while a note is held and the pedal is up
C11_Witness ==
    /\ last.channel = 0
    /\ last.status = 11
    /\ last.data1 = 60
    /\ last.data2 >= 64
    /\ ~pre.pedal
    /\ pre.notes # <<>>

(***************************************************************************)
(* C12: the release of a note that is not in the note stack leaves the     *)
(* stack, pedal, gate, current note and pitch wheel unchanged, with the    *)
(* pedal held or not.                                                      *)
(***************************************************************************)
C12_RedundantRelease ==
    (IsRelease(last) /\ last.data1 \notin Held(pre.notes)) => Fields = pre

\* a note that is not held is released with the pedal up while another
\* note sounds
C12_Witness ==
    /\ IsRelease(last)
    /\ last.data1 \notin Held(pre.notes)
    /\ ~pre.pedal
    /\ pre.notes # <<>>
    /\ pre.gate
(***************************************************************************)
(* C13: last-note priority.  As claimed: in every reachable state with two *)
(* or more notes held, the gate is open and the current note is the most   *)
(* recently pressed held note, and the release of that note makes the next *)
(* most recently pressed held note the current note.  This fails while the *)
(* pedal is held: a note released under the pedal keeps sounding, whatever *)
(* is still held.                                                          *)
(***************************************************************************)
C13_LastNotePriorityAlways ==
    /\ Len(notes) >= 2 => (gate = TRUE /\ note = Top(history))
    /\ (/\ IsRelease(last)
        /\ Len(pre.notes) >= 2
        /\ last.data1 = Top(pre.notes)) =>
            note = pre.notes[Len(pre.notes) - 1]

(***************************************************************************)
(* C13 as amended: the same with the pedal not held, in the state for the  *)
(* first part and at the release for the second.                           *)
(***************************************************************************)
C13_LastNotePriority ==
    /\ (~pedal /\ Len(notes) >= 2) => (gate = TRUE /\ note = Top(history))
    /\ (/\ IsRelease(last)
        /\ ~pre.pedal
        /\ Len(pre.notes) >= 2
        /\ last.data1 = Top(pre.notes)) =>
            /\ note = pre.notes[Len(pre.notes) - 1]
            /\ note = Top(history)

\* with the pedal up, the sounding note, the latest of three, is released
\* and two notes stay held
C13_Witness ==
    /\ IsRelease(last)
    /\ ~pre.pedal
    /\ Len(pre.notes) = 3
    /\ pre.note = Top(pre.notes)
    /\ last.data1 = pre.note
    /\ Len(notes) = 2
    /\ gate

(***************************************************************************)
(* C14: a channel-0 pitch-bend message sets the pitch wheel to data2 and   *)
(* leaves the note stack, pedal, gate and current note unchanged; data1    *)
(* has no influence on the result.                                         *)
(***************************************************************************)
C14_PitchBend ==
    (last.channel = 0 /\ last.status = 14) =>
        /\ pitchWheel = last.data2
        /\ notes = pre.notes
        /\ pedal = pre.pedal
        /\ gate = pre.gate
        /\ note = pre.note
        /\ \A data1 \in Data1Bytes :
              processMidi(pre, RawMessage(0, 14, data1, last.data2)) = Fields

\* a pitch bend whose two data bytes differ moves the wheel while a note
\* is held
C14_Witness ==
    /\ last.channel = 0
    /\ last.status = 14
    /\ last.data1 # last.data2
    /\ last.data2 # pre.pitchWheel
    /\ pre.notes # <<>>

(***************************************************************************)
(* C15: after any sequence of raw packed messages every element of the     *)
(* note stack, the current note and the pitch wheel lie in 0..127.  The    *)
(* code masks both data bytes with 0xff, so a byte of 128..255 gets in.    *)
(***************************************************************************)
C15_MidiRange ==
    /\ \A i \in 1..Len(notes) : notes[i] \in 0..127
    /\ note \in 0..127
    /\ pitchWheel \in 0..127
(***************************************************************************)
(* C18: the note stack never holds the value -1, a sustain control change  *)
(* leaves the stack as it is, and the stack changes only with a note on or *)
(* a note off on channel 0.                                                *)
(***************************************************************************)
C18_SustainKeepsStack ==
    /\ -1 \notin Held(notes)
    /\ find(notes, -1) = 0
    /\ IsPedal(last) => notes = pre.notes
    /\ notes # pre.notes => (IsPress(last) \/ IsRelease(last))

\* a sustain control change (controller 64) arrives while note 64 and
\* another note are held
C18_Witness ==
    /\ IsPedal(last)
    /\ 64 \in Held(pre.notes)
    /\ Len(pre.notes) >= 2

(***************************************************************************)
(* C19: a pedal-down event sets pedal and leaves the gate, the current     *)
(* note, the note stack and the pitch wheel unchanged, with or without     *)
(* notes held and with the pedal held before or not.                       *)
(***************************************************************************)
C19_PedalDown ==
    IsPedalDown(last) =>
        /\ pedal = TRUE
        /\ gate = pre.gate
        /\ note = pre.note
        /\ notes = pre.notes
        /\ pitchWheel = pre.pitchWheel

\* the pedal goes down with the value 64 while it was up and two notes are
\* held
C19_Witness ==
    /\ IsPedalDown(last)
    /\ last.data2 = 64
    /\ ~pre.pedal
    /\ Len(pre.notes) = 2
    /\ pre.gate

(***************************************************************************)
(* C20: a non-empty note stack implies an open gate; with the pedal not    *)
(* held the gate is open exactly if the stack is non-empty, and the        *)
(* current note then is the last stack element; so with every pressed key  *)
(* released and the pedal up the gate is closed.                           *)
(***************************************************************************)
C20_VoiceFollowsStack ==
    /\ notes # <<>> => gate = TRUE
    /\ ~pedal => /\ gate = (notes # <<>>)
                 /\ notes # <<>> => note = Top(notes)
    /\ (~pedal /\ history = <<>>) => gate = FALSE

\* the pedal goes up after the only key was released under it: the
\* sustained note stops
C20_Witness ==
    /\ IsPedalUp(last)
    /\ pre.pedal
    /\ pre.gate
    /\ pre.notes = <<>>
    /\ gate = FALSE
(***************************************************************************)
(* Vocabulary of the properties of step.                                   *)
(***************************************************************************)
\* the fields after processMidi took the messages of msgs one after the
\* other, each exactly once, beginning with the fields s0
After(s0, msgs) ==
    LET f[i \in 0..Len(msgs)] ==
            IF i = 0 THEN s0
            ELSE processMidi(f[i - 1],
                             RawMessage(msgs[i].channel, msgs[i].status,
                                        msgs[i].data1, msgs[i].data2))
    IN  f[Len(msgs)]

(***************************************************************************)
(* C16: after a step every connected output is a function of the fields:   *)
(* the gate output is 5 with the gate open and 0 otherwise, the pitch      *)
(* output p satisfies 768 * p = 64 * (note - 64) + 2 * (pitchWheel - 64),  *)
(* which is 1 for note 76 with the wheel at 64, 13/12 with the wheel at    *)
(* 96, and 0 for the initial fields; a step that reads no message changes  *)
(* no field.                                                               *)
(***************************************************************************)
C16_Outputs ==
    op = "step" =>
        /\ "GATE_OUTPUT" \in wired => gateOut = IF gate THEN 5 ELSE 0
        /\ "PITCH_OUTPUT" \in wired =>
            /\ 768 * pitchOut.num
                 = pitchOut.den * (64 * (note - 64) + 2 * (pitchWheel - 64))
            /\ (note = 76 /\ pitchWheel = 64) => pitchOut.num = pitchOut.den
            /\ (note = 76 /\ pitchWheel = 96) =>
                    12 * pitchOut.num = 13 * pitchOut.den
            /\ (note = 64 /\ pitchWheel = 64) => pitchOut.num = 0
        /\ batch = <<>> => Fields = pre

\* a step wrote both outputs with note 76 sounding and the wheel at 96
C16_Witness ==
    /\ op = "step"
    /\ wired = Outputs
    /\ gate
    /\ note = 76
    /\ pitchWheel = 96
    /\ gateOut = 5
    /\ 12 * pitchOut.num = 13 * pitchOut.den

====
